---- MODULE Spec2Model ----
(***************************************************************************)
(* Model of the portfolio page's start-up: the three DOMContentLoaded      *)
(* bootstrap handlers (js/animations.js, js/main.js), DataLoader.init with *)
(* its single asynchronous fetch of data.json, the section resolver        *)
(* (processData), the view renderer (renderSections, generateNavigation),  *)
(* the dataLoaded event and the listeners of AnimationController and App.  *)
(*                                                                         *)
(* JavaScript values of data.json are records with a type tag t; len is    *)
(* the value of the .length property where one exists (strings, arrays, an *)
(* object carrying a "length" key) and 0 otherwise.                        *)
(***************************************************************************)
EXTENDS Integers, Sequences, FiniteSets, TLC

\* Longest experience / projects list a document of the model holds.
MaxItems == 1

\* The longest experience/projects list of the rendering specification.
MaxCards == 2

\* The most calls of processData, and of renderSections, made after init.
MaxRepeats == 2

\* The longest socialLinks array handed to createSocialLink.
MaxLinks == 2

\* The most submit events of the contact form.
MaxSubmits == 2

\* -------------------------------------------------------------------------
\* JavaScript values

\* A sub-field that is read and then mapped over is the tag of its shape:
\*   "undefined": the key is absent; "array": a JSON list; "string": a
\*   non-empty string.
\* JS truthiness of a tagged sub-field.
SubTruthy(shape) == shape # "undefined"

\* x.map(...) raises a TypeError unless x is an array.
MapThrows(shape) == shape # "array"

\* JS truthiness of a tagged value (used by `if (personal)`, `!contact`,
\* `this.data.resume || ...`).
Truthy(v) ==
    /\ v.t \notin {"undefined", "null"}
    /\ ~(v.t = "string" /\ v.len = 0)

\* Mutation of LengthPositive: the comparison admits the empty list.
LengthNotNegative(v) == v.len >= 0

\* `v.length > 0`: undefined > 0 is false; len is 0 where there is no length.
LengthPositive(v) == v.len > 0

\* -------------------------------------------------------------------------
\* Documents (the parsed data.json)

Sections == {"hero", "about", "experience", "projects", "contact", "footer"}

PersonalValues ==
    { [t |-> "undefined", len |-> 0, resume |-> "undefined"],
      [t |-> "null",      len |-> 0, resume |-> "undefined"],
      [t |-> "string",    len |-> 0, resume |-> "undefined"],
      [t |-> "object",    len |-> 0, resume |-> "undefined"],
      [t |-> "object",    len |-> 0, resume |-> "string"] }

AboutValues ==
    { [t |-> "undefined", len |-> 0, description |-> "undefined"],
      [t |-> "null",      len |-> 0, description |-> "undefined"],
      [t |-> "string",    len |-> 0, description |-> "undefined"],
      [t |-> "object",    len |-> 0, description |-> "array"],
      [t |-> "object",    len |-> 0, description |-> "string"] }

\* One experience or project record: the shapes of the two sub-fields the
\* card templates map over.
ExperienceItems ==
    { [achievements |-> "array",     technologies |-> "array"],
      [achievements |-> "undefined", technologies |-> "array"],
      [achievements |-> "array",     technologies |-> "undefined"] }

ProjectItems ==
    { [achievements |-> "undefined", technologies |-> "array"],
      [achievements |-> "undefined", technologies |-> "undefined"] }

SeqsUpTo(S, n) == UNION { [1..k -> S] : k \in 0..n }

NonListValues ==
    { [t |-> "undefined", len |-> 0, items |-> <<>>],
      [t |-> "null",      len |-> 0, items |-> <<>>],
      [t |-> "string",    len |-> 0, items |-> <<>>],
      [t |-> "string",    len |-> 3, items |-> <<>>],
      [t |-> "object",    len |-> 2, items |-> <<>>] }

ListValues(Items) ==
    { [t |-> "array", len |-> Len(is), items |-> is] : is \in SeqsUpTo(Items, MaxItems) }

ExperienceValues == NonListValues \cup ListValues(ExperienceItems)

ProjectsValues == NonListValues \cup ListValues(ProjectItems)

\* A social link: the shape of its icon key ("string": present, "undefined":
\* absent).
ContactValues ==
    { [t |-> "undefined", len |-> 0, socialLinks |-> "undefined", links |-> <<>>],
      [t |-> "null",      len |-> 0, socialLinks |-> "undefined", links |-> <<>>],
      [t |-> "string",    len |-> 0, socialLinks |-> "undefined", links |-> <<>>],
      [t |-> "object",    len |-> 0, socialLinks |-> "undefined", links |-> <<>>],
      [t |-> "object",    len |-> 0, socialLinks |-> "array",     links |-> <<"string">>],
      [t |-> "object",    len |-> 0, socialLinks |-> "array",     links |-> <<"undefined">>] }

ResumeValues ==
    { [t |-> "undefined", len |-> 0],
      [t |-> "string",    len |-> 3] }

Documents ==
    [ json : {"object"},
      personal : PersonalValues,
      about : AboutValues,
      experience : ExperienceValues,
      projects : ProjectsValues,
      contact : ContactValues,
      resume : ResumeValues ]

CardListValues(Items) ==
    { [t |-> "array", len |-> Len(is), items |-> is] : is \in SeqsUpTo(Items, MaxCards) }

\* The documents of the rendering specification: every field absent or
\* well-formed at the top level, the lists up to MaxCards records long.
RenderDocuments ==
    [ json : {"object"},
      personal : { v \in PersonalValues : v.t = "undefined" \/ v.resume = "string" },
      about : { v \in AboutValues : v.t = "undefined" \/ v.description = "array" },
      experience : CardListValues(ExperienceItems),
      projects : CardListValues(ProjectItems),
      contact : { v \in ContactValues : v.t = "undefined" \/ v.links = <<"string">> },
      resume : ResumeValues ]

\* Social links as createSocialLink reads them: platform (the aria-label)
\* and icon (the lookup key; "undefined" when the key is absent).
SocialPlatforms == {"LinkedIn", "GitHub", "Mastodon"}

SocialIcons == {"undefined", "linkedin", "GitHub", "mastodon"}

SocialLinkRecords == [ platform : SocialPlatforms, icon : SocialIcons ]

\* this.data = null of the constructor.
NoDocument ==
    [ json |-> "null",
      personal |-> [t |-> "undefined", len |-> 0, resume |-> "undefined"],
      about |-> [t |-> "undefined", len |-> 0, description |-> "undefined"],
      experience |-> [t |-> "undefined", len |-> 0, items |-> <<>>],
      projects |-> [t |-> "undefined", len |-> 0, items |-> <<>>],
      contact |-> [t |-> "undefined", len |-> 0, socialLinks |-> "undefined", links |-> <<>>],
      resume |-> [t |-> "undefined", len |-> 0] ]

\* -------------------------------------------------------------------------
\* Content resolver

\* Mutation of hasValidData: the empty string passes.
hasValidDataAcceptsEmptyString(v) ==
    /\ v.t # "null"
    /\ v.t # "undefined"

hasValidData(v) ==
    /\ v.t # "null"
    /\ v.t # "undefined"
    /\ ~(v.t = "string" /\ v.len = 0)

\* Mutation of ResetSections: the previous list is kept.
ResetSectionsKeeps(prev) == prev

\* this.sections = [] at the head of processData.
ResetSections(prev) == <<>>

PushIf(cond, seq, id) == IF cond THEN Append(seq, id) ELSE seq

\* Mutation of ProcessData: footer is decided on contact instead of personal.
ProcessDataFooterOnContact(d) ==
    LET s1 == PushIf(hasValidData(d.personal), <<>>, "hero")
        s2 == PushIf(hasValidData(d.about), s1, "about")
        s3 == PushIf(hasValidData(d.experience) /\ LengthPositive(d.experience),
                     s2, "experience")
        s4 == PushIf(hasValidData(d.projects) /\ LengthPositive(d.projects),
                     s3, "projects")
        s5 == PushIf(hasValidData(d.contact), s4, "contact")
    IN  PushIf(hasValidData(d.contact), s5, "footer")

\* Mutation of ProcessData: about is shown only next to a valid personal.
ProcessDataAboutNeedsPersonal(d) ==
    LET s1 == PushIf(hasValidData(d.personal), <<>>, "hero")
        s2 == PushIf(hasValidData(d.about) /\ hasValidData(d.personal), s1, "about")
        s3 == PushIf(hasValidData(d.experience) /\ LengthPositive(d.experience),
                     s2, "experience")
        s4 == PushIf(hasValidData(d.projects) /\ LengthPositive(d.projects),
                     s3, "projects")
        s5 == PushIf(hasValidData(d.contact), s4, "contact")
    IN  PushIf(hasValidData(d.personal), s5, "footer")

\* processData: this.sections = [] followed by the six conditional pushes.
ProcessData(d) ==
    LET s1 == PushIf(hasValidData(d.personal), <<>>, "hero")
        s2 == PushIf(hasValidData(d.about), s1, "about")
        s3 == PushIf(hasValidData(d.experience) /\ LengthPositive(d.experience),
                     s2, "experience")
        s4 == PushIf(hasValidData(d.projects) /\ LengthPositive(d.projects),
                     s3, "projects")
        s5 == PushIf(hasValidData(d.contact), s4, "contact")
    IN  PushIf(hasValidData(d.personal), s5, "footer")

\* -------------------------------------------------------------------------
\* View renderer: which renderers raise a TypeError

\* renderHeroSection reads personal.name, personal.title and the optional
\* hero record behind `if (hero)`; on an eligible hero nothing raises.
RenderHeroThrows(d) == FALSE

\* renderAboutSection: about.description.map behind `about.description`.
RenderAboutThrows(d) ==
    /\ d.about.t = "object"
    /\ SubTruthy(d.about.description)
    /\ MapThrows(d.about.description)

\* createExperienceItem: achievements is guarded, technologies is not.
CreateExperienceItemThrows(exp) ==
    \/ SubTruthy(exp.achievements) /\ MapThrows(exp.achievements)
    \/ MapThrows(exp.technologies)

\* createProjectCard: project.technologies.map, unguarded.
CreateProjectCardThrows(project) == MapThrows(project.technologies)

\* renderExperienceSection: returns on a falsy value, else experience.map.
RenderExperienceThrows(d) ==
    /\ Truthy(d.experience)
    /\ \/ d.experience.t # "array"
       \/ \E i \in 1..Len(d.experience.items) :
              CreateExperienceItemThrows(d.experience.items[i])

\* renderProjectsSection: returns on a falsy value, else projects.map.
RenderProjectsThrows(d) ==
    /\ Truthy(d.projects)
    /\ \/ d.projects.t # "array"
       \/ \E i \in 1..Len(d.projects.items) :
              CreateProjectCardThrows(d.projects.items[i])

\* createSocialLink: link.icon.toLowerCase() raises when icon is absent.
CreateSocialLinkThrows(icon) == icon = "undefined"

\* String.prototype.toLowerCase on the strings of the model.
ToLowerCase(str) ==
    CASE str = "LinkedIn" -> "linkedin"
      [] str = "GitHub" -> "github"
      [] str = "Mastodon" -> "mastodon"
      [] OTHER -> str

\* iconMap[key]; "undefined" for a key the table lacks.
iconMap(key) ==
    CASE key = "linkedin" -> "fab fa-linkedin"
      [] key = "github" -> "fab fa-github"
      [] key = "twitter" -> "fab fa-twitter"
      [] key = "email" -> "fas fa-envelope"
      [] key = "website" -> "fas fa-globe"
      [] OTHER -> "undefined"

\* iconMap[name.toLowerCase()] || 'fas fa-link'
IconClass(name) ==
    IF iconMap(ToLowerCase(name)) # "undefined"
    THEN iconMap(ToLowerCase(name))
    ELSE "fas fa-link"

\* The anchor createSocialLink returns: the table is read with link.icon,
\* link.platform goes to the aria-label.
CreateSocialLink(link) ==
    [ariaLabel |-> link.platform, iconClass |-> IconClass(link.icon)]

\* The socialLinks.map(createSocialLink) shared by contact and footer.
SocialLinksThrow(contact) ==
    /\ SubTruthy(contact.socialLinks)
    /\ \/ MapThrows(contact.socialLinks)
       \/ \E i \in 1..Len(contact.links) : CreateSocialLinkThrows(contact.links[i])

\* renderContactSection: `if (!contact) return`, then the social links.
RenderContactThrows(d) == Truthy(d.contact) /\ SocialLinksThrow(d.contact)

\* renderFooter: the social links behind `this.data.contact &&
\* this.data.contact.socialLinks`.
RenderFooterThrows(d) == Truthy(d.contact) /\ SocialLinksThrow(d.contact)

\* renderSectionContent: the switch over the section identifier.
RenderSectionContentThrows(d, sectionId) ==
    CASE sectionId = "hero"       -> RenderHeroThrows(d)
      [] sectionId = "about"      -> RenderAboutThrows(d)
      [] sectionId = "experience" -> RenderExperienceThrows(d)
      [] sectionId = "projects"   -> RenderProjectsThrows(d)
      [] sectionId = "contact"    -> RenderContactThrows(d)
      [] sectionId = "footer"     -> RenderFooterThrows(d)
      [] OTHER                    -> FALSE

\* The <section> elements of the page, by id.
PageSections == Sections

\* Mutation of CreateExperienceItem: the achievements list is always emitted.
CreateExperienceItemAlwaysAchievements(exp) ==
    {"company", "position", "location", "description", "technologies", "duration",
     "achievements"}

\* The fragments of one experience card: the achievements list is emitted
\* only for a truthy exp.achievements, the others always.
CreateExperienceItem(exp) ==
    {"company", "position", "location", "description", "technologies", "duration"}
        \cup (IF SubTruthy(exp.achievements) THEN {"achievements"} ELSE {})

\* The fragments of one project card.
CreateProjectCard(project) == {"image", "title", "description", "technologies", "links"}

\* experience.map(exp => createExperienceItem(exp)).join(''): one card per
\* item, in list order.
ExperienceCards(items) == [i \in 1..Len(items) |-> CreateExperienceItem(items[i])]

\* projects.map(project => createProjectCard(project)).join('')
ProjectCards(items) == [i \in 1..Len(items) |-> CreateProjectCard(items[i])]

\* Mutation of SetInnerHTML: the markup is appended (innerHTML +=).
SetInnerHTMLAppends(old, new) == old \o new

\* container.innerHTML = markup: the new content replaces the old.
SetInnerHTML(old, new) == new

\* The content a renderer that returned has left in the card containers
\* (.experience-timeline, .projects-grid); the other renderers write text and
\* attributes only.
RenderSectionContent(d, sectionId, content) ==
    CASE sectionId = "experience" ->
             [content EXCEPT !.experience =
                 SetInnerHTML(@, ExperienceCards(d.experience.items))]
      [] sectionId = "projects" ->
             [content EXCEPT !.projects =
                 SetInnerHTML(@, ProjectCards(d.projects.items))]
      [] OTHER -> content

\* The forEach of renderSections over this.sections: each section found in
\* the page loses section-hidden and is then populated; a TypeError from a
\* renderer leaves the loop (acc.threw) with that section shown, unpopulated.
RECURSIVE RenderLoop(_, _, _)
RenderLoop(d, secs, acc) ==
    IF secs = <<>> \/ acc.threw THEN acc
    ELSE LET sectionId == Head(secs)
         IN  IF sectionId \notin PageSections
             THEN RenderLoop(d, Tail(secs), acc)
             ELSE IF RenderSectionContentThrows(d, sectionId)
                  THEN [acc EXCEPT !.hidden = @ \ {sectionId}, !.threw = TRUE]
                  ELSE RenderLoop(d, Tail(secs),
                           [acc EXCEPT !.hidden = @ \ {sectionId},
                                       !.populated = Append(@, sectionId),
                                       !.cards = RenderSectionContent(d, sectionId, @)])

\* Mutation of RenderSections: the initial hide-all is missing.
RenderSectionsNoHideAll(d, secs, content) ==
    RenderLoop(d, secs, [hidden |-> {}, populated |-> <<>>, threw |-> FALSE,
                         cards |-> content])

\* renderSections up to the call of generateNavigation: hide every section,
\* then show and populate the eligible ones in list order. content is what
\* the card containers hold beforehand.
RenderSections(d, secs, content) ==
    RenderLoop(d, secs, [hidden |-> PageSections, populated |-> <<>>, threw |-> FALSE,
                         cards |-> content])

\* -------------------------------------------------------------------------
\* Navigation generator

Capitalize(sectionId) ==
    CASE sectionId = "hero"       -> "Hero"
      [] sectionId = "about"      -> "About"
      [] sectionId = "experience" -> "Experience"
      [] sectionId = "projects"   -> "Projects"
      [] sectionId = "contact"    -> "Contact"
      [] sectionId = "footer"     -> "Footer"
      [] OTHER                    -> sectionId

formatNavName(sectionId) ==
    CASE sectionId = "hero"       -> "Home"
      [] sectionId = "about"      -> "About"
      [] sectionId = "experience" -> "Experience"
      [] sectionId = "projects"   -> "Projects"
      [] sectionId = "contact"    -> "Contact"
      [] OTHER                    -> Capitalize(sectionId)

\* Mutation of NavFilter: the footer exclusion is lost.
NavFilterKeepsFooter(sectionId) == TRUE

\* The filter of generateNavigation: footer is no navigation target.
NavFilter(sectionId) == sectionId # "footer"

\* navItems: this.sections filtered and mapped to {id, name}; each becomes an
\* <a href="#id" data-section="id"> of nav-menu.
NavItems(secs) ==
    LET kept == SelectSeq(secs, NavFilter)
    IN  [i \in 1..Len(kept) |->
            [section |-> kept[i], label |-> formatNavName(kept[i]), internal |-> TRUE]]

\* Mutation of ResumeUrl: the operands of || are swapped.
ResumeUrlPrefersPersonal(d) ==
    IF Truthy(d.personal) /\ SubTruthy(d.personal.resume) THEN "personal.resume"
    ELSE IF Truthy(d.resume) THEN "data.resume"
    ELSE "none"

\* resumeUrl = data.resume || (data.personal ? data.personal.resume : null):
\* where the URL comes from, "none" when it is falsy.
ResumeUrl(d) ==
    IF Truthy(d.resume) THEN "data.resume"
    ELSE IF Truthy(d.personal) /\ SubTruthy(d.personal.resume) THEN "personal.resume"
    ELSE "none"

\* The links generateNavigation creates are new elements: the click
\* handlers of the links they replace are gone with those.
FreshLinks(handlers) == {}

\* generateNavigation: nav-menu's innerHTML is replaced by the section links,
\* then the Resume link is appended when a URL resolves.
GenerateNavigation(menu, d, secs) ==
    LET links == SetInnerHTML(menu, NavItems(secs))
    IN  IF ResumeUrl(d) # "none"
        THEN Append(links,
                    [section |-> ResumeUrl(d), label |-> "Resume", internal |-> FALSE])
        ELSE links

\* -------------------------------------------------------------------------
\* State

VARIABLES
    domQueue,            \* DOMContentLoaded listeners still to run, in order
    lateDomListeners,    \* DOMContentLoaded listeners added during the dispatch
    dataLoadedListeners, \* listeners of 'dataLoaded', in registration order
    pc,                  \* DataLoader.init: "boot", "await_fetch", "run",
                         \*   "caught", "failed", "done"
    step,                \* index into InitSteps of the statement init is at
    fetchCount,          \* number of fetch('data.json') calls issued
    fetchOutcome,        \* "none", "pending", "ok" or the kind of failure
    data,                \* DataLoader.data
    loaded,              \* DataLoader.loaded
    sections,            \* DataLoader.sections
    calls,               \* the methods of init that have returned, in order
    sectionHidden,       \* the sections carrying class section-hidden
    unhidden,            \* the sections the loader removed section-hidden from
    populated,           \* the sections whose renderer returned, in order
    cards,               \* the cards in .experience-timeline and .projects-grid
    navMenu,             \* the links of #nav-menu
    titleSet,            \* document.title was written by setupDynamicContent
    dispatchCount,       \* number of dataLoaded events dispatched
    eventDetail,         \* detail.data of the dispatched event
    animationsSetUp,     \* AnimationController's dataLoaded listener has run
    appDataLoaded,       \* App.dataLoaded
    appAnimationsReady,  \* App.animationsReady
    appReady,            \* App.onAppReady has run
    timers,              \* pending setTimeout callbacks
    loadingHidden,       \* #loading-screen carries class hidden
    errorShown,          \* #loading-screen holds the recovery screen
    reprocessed,         \* calls of processData made after init returned
    rerendered,          \* calls of renderSections made after init returned
    socialLinks,         \* a socialLinks array handed to createSocialLink
    socialHtml,          \* the anchors createSocialLink returned for it
    socialPc,            \* "idle", "rendered" or "threw"
    linkHandlers,        \* <<i, h>>: the i-th link of #nav-menu has click handler h
    appSetUp,            \* the body of App's DOMContentLoaded listener has run
    navToggleActive,     \* class active on #nav-toggle
    navMenuActive,       \* class active on #nav-menu
    bodyNavOpen,         \* class nav-open on body
    lastEvent,           \* the user event delivered last
    lastCall,            \* the App method that event ran
    menuWasOpen,         \* body had nav-open when that event arrived
    submitDisabled,      \* the contact form's submit button is disabled
    submitLabel,         \* its innerHTML
    originalText,        \* its dataset.originalText
    formTimers,          \* pending setTimeout callbacks of the form
    formFields,          \* "empty", "filled" or "reset"
    formPhase,           \* "idle", "submitted", "outcome" or "restored"
    submissions          \* submit events so far

vars ==
    << domQueue, lateDomListeners, dataLoadedListeners, pc, step, fetchCount,
       fetchOutcome, data, loaded, sections, calls, sectionHidden, unhidden,
       populated, navMenu, titleSet, dispatchCount, eventDetail,
       animationsSetUp, appDataLoaded, appAnimationsReady, appReady, timers,
       loadingHidden, errorShown, cards, reprocessed, rerendered, socialLinks,
       socialHtml, socialPc, linkHandlers, appSetUp, navToggleActive, navMenuActive,
       bodyNavOpen, lastEvent, lastCall, menuWasOpen, submitDisabled, submitLabel,
       originalText, formTimers, formFields, formPhase, submissions >>

bootVars == << domQueue, lateDomListeners, dataLoadedListeners >>
loaderVars == << pc, step, fetchCount, fetchOutcome, data, loaded, sections, calls >>
pageVars == << sectionHidden, unhidden, populated, cards, navMenu, linkHandlers, titleSet >>
eventVars == << dispatchCount, eventDetail >>
appVars == << animationsSetUp, appDataLoaded, appAnimationsReady, appReady >>
screenVars == << timers, loadingHidden, errorShown >>
repeatVars == << reprocessed, rerendered >>
socialVars == << socialLinks, socialHtml, socialPc >>
menuVars == << navToggleActive, navMenuActive, bodyNavOpen, lastEvent, lastCall, menuWasOpen >>
formVars == << submitDisabled, submitLabel, originalText, formTimers, formFields,
              formPhase, submissions >>
uiVars == << appSetUp, menuVars, formVars >>

Range(seq) == { seq[i] : i \in 1..Len(seq) }

\* The DOMContentLoaded listeners in registration order. animations.js
\* registers AnimationController's before DataLoader's; main.js is loaded
\* before or after animations.js.
ScriptOrders ==
    { <<"AnimationController", "DataLoader", "App">>,
      <<"App", "AnimationController", "DataLoader">> }

\* Mutation of InitSteps: renderSections runs after the dispatch.
InitStepsRenderLast ==
    << "loadData", "processData", "setupDynamicContent", "loaded", "dispatchEvent",
       "renderSections" >>

\* Mutation of InitSteps: the event is dispatched before rendering.
InitStepsDispatchEarly ==
    << "loadData", "processData", "loaded", "dispatchEvent", "renderSections",
       "setupDynamicContent" >>

\* Mutation of InitSteps: the event is dispatched a second time.
InitStepsDispatchTwice ==
    << "loadData", "processData", "renderSections", "dispatchEvent",
       "setupDynamicContent", "loaded", "dispatchEvent" >>

\* The statements of DataLoader.init inside its try block, in order.
InitSteps ==
    << "loadData", "processData", "renderSections", "setupDynamicContent",
       "loaded", "dispatchEvent" >>

FetchFailures == {"network_error", "http_error", "invalid_json"}

\* The page as served: the scripts have registered their DOMContentLoaded
\* listeners, no section carries section-hidden yet, #nav-menu holds no
\* generated link and #loading-screen is up.
PageAsServed ==
    /\ domQueue \in ScriptOrders
    /\ lateDomListeners = <<>>
    /\ dataLoadedListeners = <<>>
    /\ pc = "boot"
    /\ step = 1
    /\ fetchCount = 0
    /\ fetchOutcome = "none"
    /\ data = NoDocument
    /\ loaded = FALSE
    /\ sections = <<>>
    /\ calls = <<>>
    /\ sectionHidden = {}
    /\ unhidden = {}
    /\ populated = <<>>
    /\ navMenu = <<>>
    /\ titleSet = FALSE
    /\ dispatchCount = 0
    /\ eventDetail = NoDocument
    /\ animationsSetUp = FALSE
    /\ appDataLoaded = FALSE
    /\ appAnimationsReady = FALSE
    /\ appReady = FALSE
    /\ timers = {}
    /\ loadingHidden = FALSE
    /\ errorShown = FALSE
    /\ cards = [experience |-> <<>>, projects |-> <<>>]
    /\ reprocessed = 0
    /\ rerendered = 0
    /\ socialHtml = <<>>
    /\ socialPc = "idle"
    /\ linkHandlers = {}
    /\ appSetUp = FALSE
    /\ navToggleActive = FALSE
    /\ navMenuActive = FALSE
    /\ bodyNavOpen = FALSE
    /\ lastEvent = "none"
    /\ lastCall = "none"
    /\ menuWasOpen = FALSE
    /\ submitDisabled = FALSE
    /\ submitLabel = "original"
    /\ originalText = "undefined"
    /\ formTimers = {}
    /\ formFields = "empty"
    /\ formPhase = "idle"
    /\ submissions = 0

Init == PageAsServed /\ socialLinks = <<>>

\* -------------------------------------------------------------------------
\* DOMContentLoaded bootstrap

\* new AnimationController(): init registers the dataLoaded listener.
BootAnimationController ==
    /\ domQueue # <<>> /\ Head(domQueue) = "AnimationController"
    /\ domQueue' = Tail(domQueue)
    /\ dataLoadedListeners' = Append(dataLoadedListeners, "AnimationController")
    /\ UNCHANGED << repeatVars, socialVars, uiVars, lateDomListeners, loaderVars, pageVars, eventVars, appVars, screenVars >>

\* Mutation of BootDataLoader: loadData is not awaited, init runs on.
BootDataLoaderNoAwait ==
    /\ domQueue # <<>> /\ Head(domQueue) = "DataLoader"
    /\ domQueue' = Tail(domQueue)
    /\ data' = NoDocument
    /\ loaded' = FALSE
    /\ sections' = <<>>
    /\ pc' = "run"
    /\ step' = 2
    /\ fetchCount' = fetchCount + 1
    /\ fetchOutcome' = "pending"
    /\ UNCHANGED << repeatVars, socialVars, uiVars, lateDomListeners, dataLoadedListeners, calls, pageVars, eventVars,
                    appVars, screenVars >>

\* new DataLoader(): the constructor's assignments, then init runs up to the
\* await of fetch('data.json') inside loadData.
BootDataLoader ==
    /\ domQueue # <<>> /\ Head(domQueue) = "DataLoader"
    /\ domQueue' = Tail(domQueue)
    /\ data' = NoDocument
    /\ loaded' = FALSE
    /\ sections' = <<>>
    /\ pc' = "await_fetch"
    /\ step' = 1
    /\ fetchCount' = fetchCount + 1
    /\ fetchOutcome' = "pending"
    /\ UNCHANGED << repeatVars, socialVars, uiVars, lateDomListeners, dataLoadedListeners, calls, pageVars, eventVars,
                    appVars, screenVars >>

\* new App(): the two flags, then init registers the dataLoaded listener and
\* a DOMContentLoaded listener (added while that event is being dispatched).
BootApp ==
    /\ domQueue # <<>> /\ Head(domQueue) = "App"
    /\ domQueue' = Tail(domQueue)
    /\ appDataLoaded' = FALSE
    /\ appAnimationsReady' = FALSE
    /\ dataLoadedListeners' = Append(dataLoadedListeners, "App")
    /\ lateDomListeners' = Append(lateDomListeners, "App.setup")
    /\ UNCHANGED << repeatVars, socialVars, uiVars, loaderVars, pageVars, eventVars, animationsSetUp, appReady, screenVars >>

\* -------------------------------------------------------------------------
\* DataLoader.init

\* init is about to run the statement `name` of its try block.
At(name) == pc = "run" /\ step <= Len(InitSteps) /\ InitSteps[step] = name

\* The statement returned: init moves to the next one, or leaves the try.
Advance ==
    /\ step' = step + 1
    /\ pc' = IF step + 1 > Len(InitSteps) THEN "done" ELSE "run"

\* The fetch settles only in a later task than the DOMContentLoaded dispatch.
\* response.ok and response.json() succeed: this.data is the parsed document.
FetchResolveWithMidDispatch(Docs) ==
    /\ pc = "await_fetch"
    /\ \E d \in Docs : data' = d
    /\ fetchOutcome' = "ok"
    /\ calls' = Append(calls, "loadData")
    /\ Advance
    /\ UNCHANGED << repeatVars, socialVars, uiVars, bootVars, fetchCount, loaded, sections,
                    pageVars, eventVars, appVars, screenVars >>

FetchResolveWith(Docs) ==
    /\ pc = "await_fetch" /\ domQueue = <<>>
    /\ \E d \in Docs : data' = d
    /\ fetchOutcome' = "ok"
    /\ calls' = Append(calls, "loadData")
    /\ Advance
    /\ UNCHANGED << repeatVars, socialVars, uiVars, bootVars, fetchCount, loaded, sections, pageVars, eventVars,
                    appVars, screenVars >>

FetchResolve == FetchResolveWith(Documents)

\* The fetch rejects, response.ok is false or response.json() rejects:
\* loadData rethrows and init's catch takes over.
FetchFail ==
    /\ pc = "await_fetch" /\ domQueue = <<>>
    /\ \E f \in FetchFailures : fetchOutcome' = f
    /\ pc' = "caught"
    /\ UNCHANGED << repeatVars, socialVars, uiVars, bootVars, step, fetchCount, data, loaded, sections, calls,
                    pageVars, eventVars, appVars, screenVars >>

ProcessDataStep ==
    /\ At("processData")
    /\ sections' = ResetSections(sections) \o ProcessData(data)
    /\ calls' = Append(calls, "processData")
    /\ Advance
    /\ UNCHANGED << repeatVars, socialVars, uiVars, bootVars, fetchCount, fetchOutcome, data, loaded, pageVars,
                    eventVars, appVars, screenVars >>

\* renderSections with its trailing generateNavigation; a TypeError raised by
\* a renderer is caught by init, with the page left as the loop left it.
RenderSectionsStep ==
    /\ At("renderSections")
    /\ LET r == RenderSections(data, sections, cards)
       IN  /\ sectionHidden' = r.hidden
           /\ unhidden' = PageSections \ r.hidden
           /\ populated' = r.populated
           /\ cards' = r.cards
           /\ IF r.threw
              THEN /\ pc' = "caught"
                   /\ UNCHANGED << step, navMenu, linkHandlers, calls >>
              ELSE /\ navMenu' = GenerateNavigation(navMenu, data, sections)
                   /\ linkHandlers' = FreshLinks(linkHandlers)
                   /\ calls' = calls \o <<"generateNavigation", "renderSections">>
                   /\ Advance
    /\ UNCHANGED << repeatVars, socialVars, uiVars, bootVars, fetchCount, fetchOutcome, data, loaded, sections,
                    titleSet, eventVars, appVars, screenVars >>

\* setupDynamicContent: title and meta description behind `if (personal)`.
SetupDynamicContentStep ==
    /\ At("setupDynamicContent")
    /\ titleSet' = (titleSet \/ Truthy(data.personal))
    /\ calls' = Append(calls, "setupDynamicContent")
    /\ Advance
    /\ UNCHANGED << repeatVars, socialVars, uiVars, bootVars, fetchCount, fetchOutcome, data, loaded, sections,
                    sectionHidden, unhidden, populated, cards, navMenu, linkHandlers,
                    eventVars, appVars, screenVars >>

\* this.loaded = true
MarkLoadedStep ==
    /\ At("loaded")
    /\ loaded' = TRUE
    /\ Advance
    /\ UNCHANGED << repeatVars, socialVars, uiVars, bootVars, fetchCount, fetchOutcome, data, sections, calls,
                    pageVars, eventVars, appVars, screenVars >>

\* App.checkReady: onAppReady (and with it removeLoadingScreen's timer) runs
\* when both flags are set.
CheckReady(dataLoadedFlag, animationsReadyFlag) == dataLoadedFlag /\ animationsReadyFlag

\* document.dispatchEvent(new CustomEvent('dataLoaded', {detail: {data}})):
\* the registered listeners run synchronously. AnimationController's sets up
\* the animations and arms the 1500 ms timer that hides the loading screen;
\* App's sets dataLoaded and calls checkReady.
DispatchStep ==
    /\ At("dispatchEvent")
    /\ dispatchCount' = dispatchCount + 1
    /\ eventDetail' = data
    /\ LET animListens == "AnimationController" \in Range(dataLoadedListeners)
           appListens == "App" \in Range(dataLoadedListeners)
           ready == appListens /\ CheckReady(TRUE, appAnimationsReady)
       IN  /\ animationsSetUp' = (animationsSetUp \/ animListens)
           /\ appDataLoaded' = (appDataLoaded \/ appListens)
           /\ appReady' = (appReady \/ ready)
           /\ timers' = timers \cup (IF animListens THEN {"hideLoadingScreen"} ELSE {})
                               \cup (IF ready THEN {"removeLoadingScreen"} ELSE {})
    /\ calls' = Append(calls, "dispatchEvent")
    /\ Advance
    /\ UNCHANGED << repeatVars, socialVars, uiVars, bootVars, fetchCount, fetchOutcome, data, loaded, sections,
                    pageVars, appAnimationsReady, loadingHidden, errorShown >>

\* Mutation of ShowErrorState: the catch issues the fetch again.
ShowErrorStateRetries ==
    /\ pc = "caught"
    /\ errorShown' = TRUE
    /\ calls' = Append(calls, "showErrorState")
    /\ pc' = "await_fetch"
    /\ fetchCount' = fetchCount + 1
    /\ UNCHANGED << repeatVars, socialVars, uiVars, bootVars, step, fetchOutcome, data, loaded, sections,
                    pageVars, eventVars, appVars, timers, loadingHidden >>

\* init's catch: showErrorState replaces the loading screen's content by the
\* recovery screen with its Retry button.
ShowErrorState ==
    /\ pc = "caught"
    /\ errorShown' = TRUE
    /\ calls' = Append(calls, "showErrorState")
    /\ pc' = "failed"
    /\ UNCHANGED << repeatVars, socialVars, uiVars, bootVars, step, fetchCount, fetchOutcome, data, loaded, sections,
                    pageVars, eventVars, appVars, timers, loadingHidden >>

\* A pending setTimeout callback runs: both add class hidden to
\* #loading-screen (AnimationController after its fade, App after 500 ms).
TimerFire ==
    /\ \E t \in timers :
          /\ timers' = timers \ {t}
          /\ loadingHidden' = TRUE
    /\ UNCHANGED << repeatVars, socialVars, uiVars, bootVars, loaderVars, pageVars, eventVars, appVars, errorShown >>

Next ==
    \/ BootAnimationController
    \/ BootDataLoader
    \/ BootApp
    \/ FetchResolve
    \/ FetchFail
    \/ ProcessDataStep
    \/ RenderSectionsStep
    \/ SetupDynamicContentStep
    \/ MarkLoadedStep
    \/ DispatchStep
    \/ ShowErrorState
    \/ TimerFire

Spec == Init /\ [][Next]_vars

\* -------------------------------------------------------------------------
\* Rendering, with the public methods called again after init

\* dataLoader.processData() called once more, init having settled with a
\* document.
ProcessDataAgain ==
    /\ pc \in {"done", "failed"} /\ fetchOutcome = "ok"
    /\ reprocessed < MaxRepeats
    /\ reprocessed' = reprocessed + 1
    /\ sections' = ResetSections(sections) \o ProcessData(data)
    /\ UNCHANGED << rerendered, socialVars, uiVars, bootVars, pc, step, fetchCount, fetchOutcome,
                    data, loaded, calls, pageVars, eventVars, appVars, screenVars >>

\* dataLoader.renderSections() called once more; a TypeError of a renderer
\* goes to the caller, with the page left as the loop left it.
RenderSectionsAgain ==
    /\ pc \in {"done", "failed"} /\ fetchOutcome = "ok"
    /\ rerendered < MaxRepeats
    /\ rerendered' = rerendered + 1
    /\ LET r == RenderSections(data, sections, cards)
       IN  /\ sectionHidden' = r.hidden
           /\ unhidden' = PageSections \ r.hidden
           /\ populated' = r.populated
           /\ cards' = r.cards
           /\ navMenu' = IF r.threw THEN navMenu
                         ELSE GenerateNavigation(navMenu, data, sections)
           /\ linkHandlers' = IF r.threw THEN linkHandlers
                              ELSE FreshLinks(linkHandlers)
    /\ UNCHANGED << reprocessed, socialVars, uiVars, bootVars, loaderVars, titleSet, eventVars,
                    appVars, screenVars >>

NextRender ==
    \/ BootAnimationController
    \/ BootDataLoader
    \/ BootApp
    \/ FetchResolveWith(RenderDocuments)
    \/ ProcessDataStep
    \/ RenderSectionsStep
    \/ SetupDynamicContentStep
    \/ MarkLoadedStep
    \/ DispatchStep
    \/ ShowErrorState
    \/ TimerFire
    \/ ProcessDataAgain
    \/ RenderSectionsAgain

SpecRender == Init /\ [][NextRender]_vars

\* -------------------------------------------------------------------------
\* createSocialLink on its own

InitSocial == PageAsServed /\ socialLinks \in SeqsUpTo(SocialLinkRecords, MaxLinks)

\* socialLinks.map(link => this.createSocialLink(link)): the first link whose
\* icon is absent raises and no anchor is produced.
RenderSocialLinks ==
    /\ socialPc = "idle"
    /\ IF \E i \in 1..Len(socialLinks) : CreateSocialLinkThrows(socialLinks[i].icon)
       THEN /\ socialPc' = "threw"
            /\ UNCHANGED socialHtml
       ELSE /\ socialPc' = "rendered"
            /\ socialHtml' = [i \in 1..Len(socialLinks) |-> CreateSocialLink(socialLinks[i])]
    /\ UNCHANGED << repeatVars, socialLinks, uiVars, bootVars, loaderVars, pageVars, eventVars,
                    appVars, screenVars >>

NextSocial == RenderSocialLinks

SpecSocial == InitSocial /\ [][NextSocial]_vars

\* -------------------------------------------------------------------------
\* Vocabulary of the properties

\* DataLoader.init has settled: it dispatched dataLoaded and returned, or its
\* catch ran showErrorState.
Settled == pc \in {"done", "failed"}

Called(name) == name \in Range(calls)

\* The non-footer sections without class section-hidden.
VisibleNonFooter == (PageSections \ sectionHidden) \ {"footer"}

IsSectionLink(entry) == entry.internal

\* The section links of #nav-menu, in menu order (the Resume link left out).
SectionLinks == SelectSeq(navMenu, IsSectionLink)

NavTargets == { SectionLinks[i].section : i \in 1..Len(SectionLinks) }

NotFooter(sectionId) == sectionId # "footer"

\* The label table of the specification's NavigationEntry.
FixedLabel(sectionId) ==
    CASE sectionId = "hero"       -> "Home"
      [] sectionId = "about"      -> "About"
      [] sectionId = "experience" -> "Experience"
      [] sectionId = "projects"   -> "Projects"
      [] sectionId = "contact"    -> "Contact"
      [] OTHER                    -> "unmapped"

\* A field that is absent, null or the empty string.
AbsentOrEmpty(v) == v.t \in {"undefined", "null"} \/ (v.t = "string" /\ v.len = 0)

\* -------------------------------------------------------------------------
\* C1. Once init has settled on a successfully fetched document, the visible
\* non-footer sections are exactly the section targets of the navigation
\* entries. The code breaks this when a renderer raises (see C5): the
\* sections shown so far stay visible and generateNavigation never runs.
C1_VisibleSectionsMatchNavigation ==
    (fetchOutcome = "ok" /\ Settled) => VisibleNonFooter = NavTargets

\* C2. The navigation items built by generateNavigation, the Resume entry
\* aside, are the eligible list without footer, in the same order, each with
\* its fixed label; footer is never a navigation target.
C2_NavigationMirrorsEligibleList ==
    Called("generateNavigation") =>
        LET expected == SelectSeq(sections, NotFooter)
        IN  /\ Len(SectionLinks) = Len(expected)
            /\ \A i \in 1..Len(expected) :
                  /\ SectionLinks[i].section = expected[i]
                  /\ SectionLinks[i].label = FixedLabel(expected[i])
            /\ \A i \in 1..Len(navMenu) : navMenu[i].section # "footer"
            /\ \A i \in 1..Len(navMenu) :
                  ~navMenu[i].internal => (i = Len(navMenu) /\ navMenu[i].label = "Resume")

\* C2 witness: navigation generated for a document with all six sections
\* eligible, footer included.
C2_Witness ==
    /\ Called("generateNavigation")
    /\ sections = <<"hero", "about", "experience", "projects", "contact", "footer">>
    /\ Len(SectionLinks) = 5

\* C3. processData has decided the whole eligible list before any section is
\* shown or populated, and dataLoaded is dispatched only after renderSections
\* (with generateNavigation) and setupDynamicContent returned; at the
\* dispatch loaded is true and sections is the final eligible list, every
\* member of which is rendered.
C3_ResolveThenRenderThenDispatch ==
    /\ (unhidden # {} \/ populated # <<>>) =>
           (Called("processData") /\ sections = ProcessData(data))
    /\ dispatchCount > 0 =>
           /\ calls = << "loadData", "processData", "generateNavigation",
                         "renderSections", "setupDynamicContent", "dispatchEvent" >>
           /\ loaded
           /\ sections = ProcessData(data)
           /\ populated = sections
           /\ unhidden = Range(sections)

\* C3 witness: the event was dispatched for a document whose six sections
\* are all eligible.
C3_Witness ==
    /\ dispatchCount = 1
    /\ Len(sections) = 6
    /\ "App" \in Range(dataLoadedListeners)

\* C4. Only a failed fetch aborts init: a successfully fetched JSON object,
\* whatever the shape of its fields, reaches the dispatch of dataLoaded and
\* never shows the recovery screen. The code's catch also takes every
\* TypeError a renderer raises.
C4_OnlyFetchFailureAborts ==
    /\ errorShown => fetchOutcome \in FetchFailures
    /\ (fetchOutcome = "ok" /\ Settled) => dispatchCount = 1

\* C5. A malformed sub-field of one eligible section is absorbed by that
\* section's renderer: every other eligible section is shown and populated
\* and the navigation is generated. In the code the TypeError leaves
\* renderSections.
C5_MalformedSubFieldAbsorbed ==
    (fetchOutcome = "ok" /\ Settled) =>
        /\ Called("generateNavigation")
        /\ \A s \in Range(sections) :
              ~RenderSectionContentThrows(data, s) =>
                  (s \in unhidden /\ s \in Range(populated))

\* C6. After a failed fetch processData and renderSections never run, the
\* loader shows no section, dataLoaded is not dispatched, the recovery screen
\* is what init ends with, and no second fetch is issued.
C6_FetchFailureShowsRecoveryOnly ==
    fetchOutcome \in FetchFailures =>
        /\ pc \in {"caught", "failed"}
        /\ pc = "caught" => ENABLED ShowErrorState
        /\ pc = "failed" => errorShown
        /\ ~Called("processData") /\ ~Called("renderSections")
        /\ ~Called("generateNavigation")
        /\ sections = <<>> /\ data = NoDocument /\ ~loaded
        /\ unhidden = {} /\ populated = <<>> /\ navMenu = <<>>
        /\ dispatchCount = 0
        /\ fetchCount = 1
        /\ ~loadingHidden /\ timers = {}

\* C6 witness: the recovery screen is up after a non-success status.
C6_Witness ==
    /\ fetchOutcome = "http_error"
    /\ pc = "failed"
    /\ errorShown
    /\ Called("showErrorState")

\* C7. After a successful load with the motion layer set up, the App's gate
\* has both flags set and onAppReady has run. The code never assigns
\* animationsReady, so checkReady never passes.
C7_ReadinessGateOpens ==
    (pc = "done" /\ animationsSetUp) =>
        (appDataLoaded /\ appAnimationsReady /\ appReady)

\* C8. Per page load there is one fetch and at most one dataLoaded event
\* (exactly one when init completes); its detail.data is the loader's
\* document; after the dispatch data and sections never change.
C8_SingleDispatchImmutableDocument ==
    /\ [](/\ fetchCount <= 1
          /\ dispatchCount <= 1
          /\ pc = "done" => dispatchCount = 1
          /\ dispatchCount = 1 => (eventDetail = data /\ data \in Documents))
    /\ [][dispatchCount = 1 => (data' = data /\ sections' = sections)]_vars

\* C8 witness: the event was dispatched and the page kept running (the
\* loading-screen timer fired afterwards).
C8_Witness ==
    /\ dispatchCount = 1
    /\ eventDetail = data
    /\ loadingHidden
    /\ Len(sections) >= 2

\* C9 as claimed: with personal absent, null or '' the eligible list is
\* empty. processData decides about, experience, projects and contact on
\* their own fields, so the list need not be empty.
C9_NoPersonalEmptyList ==
    (Called("processData") /\ AbsentOrEmpty(data.personal)) => sections = <<>>

\* C9 amended: with personal absent, null or '' the eligible list holds
\* neither hero nor footer (only sections whose own field qualifies).
C9_NoPersonalNoHeroNoFooter ==
    (Called("processData") /\ AbsentOrEmpty(data.personal)) =>
        /\ Range(sections) \subseteq {"about", "experience", "projects", "contact"}
        /\ "about" \in Range(sections) <=> ~AbsentOrEmpty(data.about)
        /\ "contact" \in Range(sections) <=> ~AbsentOrEmpty(data.contact)

\* C9 witness: personal is null and the list is not empty.
C9_Witness ==
    /\ Called("processData")
    /\ data.personal.t = "null"
    /\ sections = <<"about", "experience", "contact">>

\* A document with only personal populated (no resume URL either).
MinimalDocument(d) ==
    /\ ~AbsentOrEmpty(d.personal)
    /\ d.about.t = "undefined"
    /\ d.experience.t = "undefined"
    /\ d.projects.t = "undefined"
    /\ d.contact.t = "undefined"
    /\ d.resume.t = "undefined"

\* C10. hero is eligible iff footer is, and both exactly when personal is
\* present, not null and not ''; a document with only personal populated
\* gives [hero, footer] and the section navigation [Home].
C10_HeroFooterFollowPersonal ==
    Called("processData") =>
        /\ "hero" \in Range(sections) <=> "footer" \in Range(sections)
        /\ "hero" \in Range(sections) <=> ~AbsentOrEmpty(data.personal)
        /\ MinimalDocument(data) =>
              /\ sections = <<"hero", "footer">>
              /\ Called("generateNavigation") =>
                    /\ SectionLinks =
                          << [section |-> "hero", label |-> "Home", internal |-> TRUE] >>
                    /\ data.personal.resume = "undefined" => navMenu = SectionLinks

\* C10 witness: the navigation was generated for a minimal document.
C10_Witness ==
    /\ MinimalDocument(data)
    /\ data.personal.resume = "undefined"
    /\ Called("generateNavigation")
    /\ Len(navMenu) = 1

\* -------------------------------------------------------------------------
\* C11 as claimed: experience (projects) is eligible only if its value is a
\* list with at least one element. processData tests `.length > 0` on any
\* valid value, so "abc" and {length: 2} are eligible too.
C11_OnlyNonEmptyListsEligible ==
    Called("processData") =>
        \A f \in {"experience", "projects"} :
            f \in Range(sections) => (data[f].t = "array" /\ Len(data[f].items) >= 1)

\* renderSections has run, to its end or to the TypeError init caught.
RenderRan == Called("renderSections") \/ (fetchOutcome = "ok" /\ pc \in {"caught", "failed"})

\* [], null or an absent field.
EmptyNullOrAbsent(v) == v.t \in {"undefined", "null"} \/ (v.t = "array" /\ Len(v.items) = 0)

\* C12. experience: [], null and an absent field are ineligible (hidden, no
\* navigation entry); a list of exactly one item is eligible; likewise
\* projects.
C12_ListBoundaries ==
    Called("processData") =>
        \A f \in {"experience", "projects"} :
            /\ EmptyNullOrAbsent(data[f]) =>
                  /\ f \notin Range(sections)
                  /\ RenderRan => f \in sectionHidden
                  /\ f \notin NavTargets
            /\ (data[f].t = "array" /\ Len(data[f].items) = 1) => f \in Range(sections)

\* C12 witness: rendered with experience: [] hidden and a one-item projects
\* list in the navigation.
C12_Witness ==
    /\ Called("renderSections")
    /\ data.experience.t = "array" /\ Len(data.experience.items) = 0
    /\ "experience" \in sectionHidden
    /\ Len(data.projects.items) = 1
    /\ "projects" \in NavTargets

\* The list without one identifier.
Without(seq, id) == SelectSeq(seq, LAMBDA x : x # id)

\* The menu without its link to one section.
MenuWithout(menu, id) == SelectSeq(menu, LAMBDA e : e.section # id)

\* The method of init that returned last.
JustReturned(name) == calls # <<>> /\ calls[Len(calls)] = name

\* C13. about (contact) is eligible iff its own field is not absent, null or
\* ''; replacing that one field by any other value changes neither the
\* membership nor the order of the other identifiers, in the eligible list
\* (compared when processData returns) and in the navigation (compared when
\* renderSections returns).
C13_AboutContactIndependent ==
    /\ Called("processData") =>
          /\ "about" \in Range(sections) <=> ~AbsentOrEmpty(data.about)
          /\ "contact" \in Range(sections) <=> ~AbsentOrEmpty(data.contact)
    /\ JustReturned("processData") =>
          /\ \A v \in AboutValues :
                Without(ProcessData([data EXCEPT !.about = v]), "about")
                    = Without(sections, "about")
          /\ \A v \in ContactValues :
                Without(ProcessData([data EXCEPT !.contact = v]), "contact")
                    = Without(sections, "contact")
    /\ JustReturned("renderSections") =>
          /\ \A v \in AboutValues :
                LET d2 == [data EXCEPT !.about = v]
                IN  MenuWithout(GenerateNavigation(<<>>, d2, ProcessData(d2)), "about")
                        = MenuWithout(navMenu, "about")
          /\ \A v \in ContactValues :
                LET d2 == [data EXCEPT !.contact = v]
                IN  MenuWithout(GenerateNavigation(<<>>, d2, ProcessData(d2)), "contact")
                        = MenuWithout(navMenu, "contact")

\* C13 witness: navigation generated with about eligible, personal not.
C13_Witness ==
    /\ JustReturned("renderSections")
    /\ AbsentOrEmpty(data.personal)
    /\ sections = <<"about", "projects">>

\* C15. After renderSections has completed, each of the six sections is
\* visible iff it is in the eligible list; the others are hidden and were
\* not populated.
C15_VisibleIffEligible ==
    Called("renderSections") =>
        \A s \in PageSections :
            /\ s \notin sectionHidden <=> s \in Range(sections)
            /\ s \notin Range(sections) => (s \in sectionHidden /\ s \notin Range(populated))
            /\ s \in Range(sections) => s \in Range(populated)

\* C15 witness: rendered with about visible, footer and hero hidden.
C15_Witness ==
    /\ Called("renderSections")
    /\ "about" \notin sectionHidden
    /\ {"hero", "footer", "contact"} \subseteq sectionHidden

\* The positions of the non-section (Resume) entries of the menu.
ResumeEntries == { i \in 1..Len(navMenu) : ~navMenu[i].internal }

\* C17. The menu has a Resume entry iff data.resume or personal.resume gives
\* a URL; it is then a single, last entry, taken from data.resume when both
\* are given.
C17_ResumeEntry ==
    Called("generateNavigation") =>
        LET topLevel == data.resume.t = "string" /\ data.resume.len > 0
            fromPersonal == ~AbsentOrEmpty(data.personal) /\ data.personal.resume # "undefined"
        IN  /\ ResumeEntries # {} <=> (topLevel \/ fromPersonal)
            /\ Cardinality(ResumeEntries) <= 1
            /\ \A i \in ResumeEntries :
                  /\ i = Len(navMenu)
                  /\ navMenu[i].label = "Resume"
                  /\ navMenu[i].section = IF topLevel THEN "data.resume" ELSE "personal.resume"

\* C17 witness: both URLs are given and the Resume entry follows two section
\* links.
C17_Witness ==
    /\ Called("generateNavigation")
    /\ data.resume.t = "string"
    /\ data.personal.resume = "string"
    /\ Len(navMenu) >= 3
    /\ ~navMenu[Len(navMenu)].internal

\* C19. While the fetch is pending nothing is resolved or rendered and
\* neither dataLoaded nor the recovery screen occurs; the only step that
\* changes the loader or the page from there is the settling of the fetch
\* (no timeout, no cancellation).
C19_PendingFetchOnlySettles ==
    /\ [](fetchOutcome = "pending" =>
            /\ pc = "await_fetch"
            /\ ~Called("processData") /\ ~Called("renderSections")
            /\ sections = <<>> /\ data = NoDocument /\ ~loaded
            /\ unhidden = {} /\ populated = <<>> /\ navMenu = <<>>
            /\ dispatchCount = 0
            /\ ~errorShown /\ ~loadingHidden /\ timers = {})
    /\ [][fetchOutcome = "pending" =>
            \/ /\ fetchOutcome' = "pending"
               /\ UNCHANGED << loaderVars, pageVars, eventVars, animationsSetUp,
                               appReady, screenVars >>
            \/ fetchOutcome' \in {"ok"} \cup FetchFailures]_vars

\* C19 witness: the bootstraps are over and the fetch is still pending.
C19_Witness ==
    /\ fetchOutcome = "pending"
    /\ domQueue = <<>>
    /\ Len(dataLoadedListeners) = 2

\* The order in which processData evaluates the six sections.
CanonicalOrder == <<"hero", "about", "experience", "projects", "contact", "footer">>

Position(sectionId) == CHOOSE i \in 1..Len(CanonicalOrder) : CanonicalOrder[i] = sectionId

\* seq is a duplicate-free subsequence of the canonical order.
InCanonicalOrder(seq) ==
    /\ Range(seq) \subseteq Range(CanonicalOrder)
    /\ \A i, j \in 1..Len(seq) : i < j => Position(seq[i]) < Position(seq[j])

IsPrefix(p, seq) == Len(p) <= Len(seq) /\ \A i \in 1..Len(p) : p[i] = seq[i]

\* C14: after processData, however often it has been called again, the
\* eligible list is a duplicate-free subsequence of the canonical order, and
\* the sections are populated in the order of that list.
C14_EligibleListCanonical ==
    Called("processData") =>
        /\ InCanonicalOrder(sections)
        /\ IsPrefix(populated, sections)
        /\ (pc = "done" => populated = sections)

C14_Witness ==
    /\ reprocessed >= 2
    /\ rerendered >= 1
    /\ sections = CanonicalOrder
    /\ populated = sections

\* C16: a further processData or renderSections on the same document leaves
\* the eligible list, the visible sections, the rendered cards and the
\* navigation entries as they were, and the menu never holds two Resume
\* entries.
C16_RerunIdempotent ==
    /\ [](Cardinality(ResumeEntries) <= 1)
    /\ [][(reprocessed' # reprocessed \/ rerendered' # rerendered) =>
              UNCHANGED << sections, sectionHidden, populated, cards, navMenu >>]_vars

C16_Witness ==
    /\ pc = "done"
    /\ reprocessed >= 1
    /\ rerendered >= 2
    /\ Len(cards.experience) >= 2
    /\ Len(cards.projects) >= 1
    /\ ResumeEntries # {}

\* C18: once the experience renderer has returned there is one card per
\* item, in list order; the card of an item without achievements has no
\* achievements fragment (the others have one), and every card has the
\* company, position, description and technology fragments.
C18_ExperienceCardPerItem ==
    "experience" \in Range(populated) =>
        /\ Len(cards.experience) = Len(data.experience.items)
        /\ \A i \in 1..Len(cards.experience) :
              /\ ("achievements" \in cards.experience[i]
                     <=> data.experience.items[i].achievements # "undefined")
              /\ {"company", "position", "description", "technologies"}
                     \subseteq cards.experience[i]

C18_Witness ==
    /\ "experience" \in Range(populated)
    /\ Len(data.experience.items) = 2
    /\ data.experience.items[1].achievements = "undefined"
    /\ data.experience.items[2].achievements = "array"
    /\ "achievements" \notin cards.experience[1]

\* C20: createSocialLink never raises, and the icon class of every anchor
\* is the table's entry for the link's platform name in lower case, the
\* generic glyph for a platform the table lacks.
C20_IconByPlatformNeverRaises ==
    socialPc # "idle" =>
        /\ socialPc = "rendered"
        /\ \A i \in 1..Len(socialHtml) :
              socialHtml[i].iconClass = IconClass(socialLinks[i].platform)

\* -------------------------------------------------------------------------
\* The handlers of App's setup routines
\*
\* The page's own DOMContentLoaded dispatch does not reach the listener that
\* calls the setup routines (App registers it while that event is being
\* dispatched: lateDomListeners). The two specifications below let the body
\* of that listener run once App exists, and then deliver user events.

\* The documents of these specifications: no lists, no contact.
HandlerDocuments ==
    { d \in RenderDocuments :
        /\ d.experience.len = 0
        /\ d.projects.len = 0
        /\ d.contact.t = "undefined"
        /\ d.resume.t = "undefined" }

\* No script is on the stack: a task (the listener body, a user event, a
\* timer callback) can start.
BetweenTasks == pc \notin {"run", "caught"}

\* The body of App's DOMContentLoaded listener. setupMobileMenu puts the
\* closing handler on every .nav-link and setupSmoothScrolling the scrolling
\* handler on every a[href^="#"] that exists at that moment; the listeners
\* on document, #nav-toggle and the form are represented by appSetUp.
AppSetup ==
    /\ "App.setup" \in Range(lateDomListeners)
    /\ BetweenTasks
    /\ ~appSetUp
    /\ appSetUp' = TRUE
    /\ linkHandlers' = linkHandlers
          \cup { <<i, "closeMobileMenu">> : i \in 1..Len(navMenu) }
          \cup { <<i, "smoothScroll">> : i \in { j \in 1..Len(navMenu) : navMenu[j].internal } }
    /\ UNCHANGED << repeatVars, socialVars, menuVars, formVars, bootVars, loaderVars,
                    sectionHidden, unhidden, populated, cards, navMenu, titleSet,
                    eventVars, appVars, screenVars >>

MenuFlags == [toggle |-> navToggleActive, menu |-> navMenuActive, body |-> bodyNavOpen]

\* Mutation of CloseMobileMenu: nav-open stays on body.
CloseMobileMenuKeepsBody(flags) == [flags EXCEPT !.toggle = FALSE, !.menu = FALSE]

\* closeMobileMenu: classList.remove on the three elements.
CloseMobileMenu(flags) == [toggle |-> FALSE, menu |-> FALSE, body |-> FALSE]

\* The click handler of #nav-toggle: classList.toggle on the three elements.
ToggleMobileMenu(flags) ==
    [toggle |-> ~flags.toggle, menu |-> ~flags.menu, body |-> ~flags.body]

\* A user event has been handled: what it was, which App method it ran and
\* the flags that method left.
Handled(event, call, flags) ==
    /\ lastEvent' = event
    /\ lastCall' = call
    /\ menuWasOpen' = bodyNavOpen
    /\ navToggleActive' = flags.toggle
    /\ navMenuActive' = flags.menu
    /\ bodyNavOpen' = flags.body
    /\ UNCHANGED << repeatVars, socialVars, appSetUp, formVars, bootVars, loaderVars,
                    pageVars, eventVars, appVars, screenVars >>

UserCanAct == BetweenTasks /\ domQueue = <<>>

\* A click on #nav-toggle: its handler toggles; document's click handler sees
\* a target inside #nav-toggle and does nothing.
ClickNavToggle ==
    /\ UserCanAct
    /\ IF appSetUp
       THEN Handled("click-toggle", "toggle", ToggleMobileMenu(MenuFlags))
       ELSE Handled("click-toggle", "none", MenuFlags)

\* keydown with key Escape.
PressEscape ==
    /\ UserCanAct
    /\ IF appSetUp
       THEN Handled("escape", "closeMobileMenu", CloseMobileMenu(MenuFlags))
       ELSE Handled("escape", "none", MenuFlags)

\* A click outside #nav-toggle and #nav-menu: document's click handler.
ClickOutside ==
    /\ UserCanAct
    /\ IF appSetUp
       THEN Handled("click-outside", "closeMobileMenu", CloseMobileMenu(MenuFlags))
       ELSE Handled("click-outside", "none", MenuFlags)

\* A click on a link of #nav-menu: the link's own handler, if it has one,
\* closes the menu for an href starting with '#'; document's click handler
\* sees a target inside #nav-menu and does nothing.
ClickNavLink ==
    /\ UserCanAct
    /\ \E i \in 1..Len(navMenu) :
          IF <<i, "closeMobileMenu">> \in linkHandlers /\ navMenu[i].internal
          THEN Handled("click-link", "closeMobileMenu", CloseMobileMenu(MenuFlags))
          ELSE Handled("click-link", "none", MenuFlags)

\* The resize listener's 250 ms timer fires: handleResize closes the menu
\* above 768 px.
ResizeSettled ==
    /\ UserCanAct
    /\ \E wide \in BOOLEAN :
          IF appSetUp /\ wide
          THEN Handled("resize", "closeMobileMenu", CloseMobileMenu(MenuFlags))
          ELSE Handled("resize", "none", MenuFlags)

PageLoad ==
    \/ BootAnimationController
    \/ BootDataLoader
    \/ BootApp
    \/ FetchResolveWith(HandlerDocuments)
    \/ ProcessDataStep
    \/ RenderSectionsStep
    \/ SetupDynamicContentStep
    \/ MarkLoadedStep
    \/ DispatchStep
    \/ TimerFire

NextMenu ==
    \/ PageLoad
    \/ AppSetup
    \/ ClickNavToggle
    \/ PressEscape
    \/ ClickOutside
    \/ ClickNavLink
    \/ ResizeSettled

SpecMenu == Init /\ [][NextMenu]_vars

\* A submit event of #contact-form, dispatched while its submit button is
\* enabled. With the submit listener installed: preventDefault, then
\* showFormLoading, then the await of simulateFormSubmission's 1500 ms timer.
\* Without it no script touches the button.
SubmitForm ==
    /\ UserCanAct
    /\ ~submitDisabled
    /\ submissions < MaxSubmits
    /\ submissions' = submissions + 1
    /\ formPhase' = "submitted"
    /\ formFields' = "filled"
    /\ IF appSetUp
       THEN /\ originalText' = submitLabel
            /\ submitDisabled' = TRUE
            /\ submitLabel' = "sending"
            /\ formTimers' = formTimers \cup {"simulateFormSubmission"}
       ELSE UNCHANGED << originalText, submitDisabled, submitLabel, formTimers >>
    /\ UNCHANGED << repeatVars, socialVars, appSetUp, menuVars, bootVars, loaderVars,
                    pageVars, eventVars, appVars, screenVars >>

\* simulateFormSubmission's timer fires and the submit listener resumes:
\* showFormSuccess and form.reset() when Math.random() > 0.1, showFormError
\* otherwise; each arms the timer that restores the button.
SubmissionSettles ==
    /\ BetweenTasks
    /\ "simulateFormSubmission" \in formTimers
    /\ formPhase' = "outcome"
    /\ \E resolved \in BOOLEAN :
          IF resolved
          THEN /\ submitLabel' = "sent"
               /\ formFields' = "reset"
               /\ formTimers' = (formTimers \ {"simulateFormSubmission"}) \cup {"afterSuccess"}
          ELSE /\ submitLabel' = "error"
               /\ formFields' = formFields
               /\ formTimers' = (formTimers \ {"simulateFormSubmission"}) \cup {"afterError"}
    /\ UNCHANGED << repeatVars, socialVars, appSetUp, menuVars, submitDisabled, originalText,
                    submissions, bootVars, loaderVars, pageVars, eventVars, appVars,
                    screenVars >>

\* The 3000 ms (success) or 5000 ms (error) timer fires: the button is
\* enabled and its innerHTML set back to dataset.originalText.
RestoreSubmitButton ==
    /\ BetweenTasks
    /\ \E t \in formTimers \cap {"afterSuccess", "afterError"} :
          formTimers' = formTimers \ {t}
    /\ submitDisabled' = FALSE
    /\ submitLabel' = originalText
    /\ formPhase' = "restored"
    /\ UNCHANGED << repeatVars, socialVars, appSetUp, menuVars, originalText, formFields,
                    submissions, bootVars, loaderVars, pageVars, eventVars, appVars,
                    screenVars >>

NextForm ==
    \/ PageLoad
    \/ AppSetup
    \/ SubmitForm
    \/ SubmissionSettles
    \/ RestoreSubmitButton

SpecForm == Init /\ [][NextForm]_vars

\* The DOMContentLoaded dispatch is over: every listener registered when it
\* began has run.
DomContentLoadedDispatched == domQueue = <<>>

\* C22: once DOMContentLoaded has been dispatched, the body of App's own
\* DOMContentLoaded listener (the five setup routines) has run.
C22_SetupRoutinesRanOnce ==
    DomContentLoadedDispatched => appSetUp

\* C23: whenever dataLoaded has been dispatched, both listeners were
\* registered and have run, and the animations are set up only on a page
\* whose rendering has returned.
C23_ListenersBeforeDispatch ==
    /\ dispatchCount > 0 =>
          /\ Range(dataLoadedListeners) = {"AnimationController", "App"}
          /\ animationsSetUp
          /\ appDataLoaded
    /\ animationsSetUp => Called("renderSections")
    /\ pc \notin {"boot", "await_fetch"} => DomContentLoadedDispatched

C23_Witness ==
    /\ dispatchCount = 1
    /\ dataLoadedListeners = <<"App", "AnimationController">>
    /\ animationsSetUp
    /\ appDataLoaded

\* C26: while the recovery screen is up, #loading-screen is not hidden, no
\* timer that would hide it is pending and dataLoaded was not dispatched.
C26_ErrorScreenNeverHidden ==
    errorShown => (~loadingHidden /\ timers = {} /\ dispatchCount = 0)

C26_Witness ==
    /\ errorShown
    /\ fetchOutcome = "ok"
    /\ Len(dataLoadedListeners) = 2
    /\ "hero" \in Range(populated)

\* The i-th link of #nav-menu carries both click handlers.
Wired(i) == {<<i, "closeMobileMenu">>, <<i, "smoothScroll">>} \subseteq linkHandlers

\* C21: with the setup routines run, every internal link generateNavigation
\* has put into #nav-menu carries the handlers of setupMobileMenu and
\* setupSmoothScrolling, and a click on a link of the open menu closes it.
C21_GeneratedLinksWired ==
    (appSetUp /\ Called("generateNavigation")) =>
        /\ \A i \in 1..Len(navMenu) : navMenu[i].internal => Wired(i)
        /\ (lastEvent = "click-link" /\ menuWasOpen) => ~bodyNavOpen

\* C25: the three mobile-menu flags are all set or all clear, and right
\* after closeMobileMenu all three are clear.
C25_MenuFlagsTogether ==
    /\ navToggleActive = navMenuActive
    /\ navMenuActive = bodyNavOpen
    /\ lastCall = "closeMobileMenu" =>
          (~navToggleActive /\ ~navMenuActive /\ ~bodyNavOpen)

C25_Witness ==
    /\ appSetUp
    /\ lastEvent = "click-link"
    /\ lastCall = "closeMobileMenu"
    /\ menuWasOpen
    /\ ~bodyNavOpen

\* C24: from a submit event until the outcome timer has fired the submit
\* button is disabled; after that it is enabled with the label it had before
\* the first submission; the fields are reset only after a success.
C24_SubmitButtonDisabledUntilOutcome ==
    /\ formPhase \in {"submitted", "outcome"} => submitDisabled
    /\ formPhase = "restored" => (~submitDisabled /\ submitLabel = "original")
    /\ formFields = "reset" => formPhase \in {"outcome", "restored"}

====
